---- MODULE Spec2Model ----
(***************************************************************************)
(* A model of @atomicloud/samples-bun-lib (src/src/lib/services.ts):       *)
(* the Calculator, String, Config and Library services, the Result values  *)
(* they return and the capabilities (logger, configuration provider) they  *)
(* are given.                                                              *)
(*                                                                         *)
(* The services hold no mutable state of their own.  The state of the      *)
(* model is what a caller can observe: the last call made and how it       *)
(* ended, the calls recorded by the logger, and the environment the        *)
(* services were constructed in.                                           *)
(***************************************************************************)
EXTENDS Integers, Sequences, FiniteSets, TLC

VARIABLES
    logger,     \* the ILoggerAdapter given at construction: "none", "mock", "throwing"
    log,        \* the calls recorded by the logger, oldest first
    provider,   \* the IConfigProvider given to ConfigService
    pkg,        \* the package.json files getLibraryVersion reads
    call,       \* the last call made: [op |-> ..., ...arguments]
    outcome,    \* how it ended: [kind |-> "returned", value |-> v] or [kind |-> "threw"]
    asked,      \* the methods of the provider the last call invoked, in order
    heap,       \* the service objects built by createLibraryService, by reference
    cache,      \* the Map of a MockCacheAdapter: key -> [value, expires]
    now         \* Date.now(), in milliseconds

vars == <<logger, log, provider, pkg, call, outcome, asked, heap, cache, now>>

-----------------------------------------------------------------------------
(* Bounds of the model.                                                    *)

MaxNum == 3         \* operands are the integers -MaxNum..MaxNum and the IEEE specials
MaxLen == 3         \* the longest text drawn from an alphabet
MaxLog == 2         \* the logger records at most MaxLog calls
MaxPalindrome == 4  \* the longest text given to isPalindrome
MaxLibraries == 2   \* createLibraryService is called at most MaxLibraries times
MaxClock == 3       \* the clock advances by at most MaxClock milliseconds

-----------------------------------------------------------------------------
(* JavaScript numbers.  A number is [neg, n, d]: the value (-1)^neg * n/d  *)
(* in lowest terms.  d = 0 stands for the IEEE 754 specials: 1/0 is        *)
(* Infinity and 0/0 is NaN; n = 0 with neg set is negative zero.  A finite *)
(* value stands for the double nearest to n/d.                             *)

RECURSIVE Gcd(_, _)
Gcd(a, b) == IF b = 0 THEN a ELSE Gcd(b, a % b)

NaN == [neg |-> FALSE, n |-> 0, d |-> 0]
Infinity == [neg |-> FALSE, n |-> 1, d |-> 0]
NegInfinity == [neg |-> TRUE, n |-> 1, d |-> 0]
Zero == [neg |-> FALSE, n |-> 0, d |-> 1]
NegZero == [neg |-> TRUE, n |-> 0, d |-> 1]

IsNaN(x) == x.n = 0 /\ x.d = 0
IsInf(x) == x.n # 0 /\ x.d = 0
IsZeroNum(x) == x.n = 0 /\ x.d # 0

Abs(i) == IF i < 0 THEN -i ELSE i

\* the number with sign neg and magnitude n/d, in canonical form
Num(neg, n, d) ==
    IF n = 0 /\ d = 0 THEN NaN
    ELSE IF d = 0 THEN [neg |-> neg, n |-> 1, d |-> 0]
    ELSE [neg |-> neg, n |-> n \div Gcd(n, d), d |-> d \div Gcd(n, d)]

FromInt(i) == Num(i < 0, Abs(i), 1)

\* unary minus
JsNeg(x) == IF IsNaN(x) THEN NaN ELSE [x EXCEPT !.neg = ~x.neg]

\* the numerator of a finite x over the denominator d * x.d, signed
Signed(x, d) == (IF x.neg THEN -1 ELSE 1) * x.n * d

\* x + y
JsAdd(x, y) ==
    IF IsNaN(x) \/ IsNaN(y) THEN NaN
    ELSE IF IsInf(x) /\ IsInf(y) THEN (IF x.neg = y.neg THEN x ELSE NaN)
    ELSE IF IsInf(x) THEN x
    ELSE IF IsInf(y) THEN y
    ELSE LET s == Signed(x, y.d) + Signed(y, x.d)
         IN  IF s = 0 THEN (IF x.neg /\ y.neg THEN NegZero ELSE Zero)
             ELSE Num(s < 0, Abs(s), x.d * y.d)

\* x - y
JsSub(x, y) == JsAdd(x, JsNeg(y))

\* x * y
JsMul(x, y) == Num(x.neg # y.neg, x.n * y.n, x.d * y.d)

\* x / y
JsDiv(x, y) == Num(x.neg # y.neg, x.n * y.d, x.d * y.n)

\* x === y
JsStrictEq(x, y) ==
    /\ ~IsNaN(x)
    /\ ~IsNaN(y)
    /\ \/ x = y
       \/ IsZeroNum(x) /\ IsZeroNum(y)

\* x < y: false when either is NaN; -0 and 0 are equal
JsLess(x, y) ==
    IF IsNaN(x) \/ IsNaN(y) THEN FALSE
    ELSE IF IsInf(x) \/ IsInf(y)
         THEN \/ x = NegInfinity /\ y # NegInfinity
              \/ y = Infinity /\ x # Infinity
    ELSE Signed(x, y.d) < Signed(y, x.d)

\* Math.abs(x): NaN for NaN, and otherwise x with the sign cleared
MathAbs(x) == IF IsNaN(x) THEN NaN ELSE [x EXCEPT !.neg = FALSE]

\* the operands the model calls the calculator with
Numbers ==
    {FromInt(i) : i \in -MaxNum..MaxNum} \cup {NegZero, NaN, Infinity, NegInfinity}

-----------------------------------------------------------------------------
(* Result<T> (structures.ts): OperationResult<T> | OperationError.         *)

OperationResult(data) == [success |-> TRUE, data |-> data]

OperationError(error, code) == [success |-> FALSE, error |-> error, code |-> code]

CalculatorOutput(result, operation) == [result |-> result, operation |-> operation]

Returned(v) == [kind |-> "returned", value |-> v]
Threw == [kind |-> "threw"]

-----------------------------------------------------------------------------
(* CalculatorService.                                                      *)

add(input) == OperationResult(CalculatorOutput(JsAdd(input.a, input.b), "add"))

\* variant: subtract tagged 'add'
subtract_TaggedAdd(input) == OperationResult(CalculatorOutput(JsSub(input.a, input.b), "add"))
subtract(input) == OperationResult(CalculatorOutput(JsSub(input.a, input.b), "subtract"))

multiply(input) == OperationResult(CalculatorOutput(JsMul(input.a, input.b), "multiply"))

\* variants: a failure that also carries data; a test that misses -0
divide_ErrorWithData(input) ==
    IF JsStrictEq(input.b, Zero)
    THEN [success |-> FALSE, error |-> "Division by zero is not allowed",
          code |-> "DIVISION_BY_ZERO",
          data |-> CalculatorOutput(JsDiv(input.a, input.b), "divide")]
    ELSE OperationResult(CalculatorOutput(JsDiv(input.a, input.b), "divide"))
divide_SameValueZero(input) ==
    IF input.b = Zero
    THEN OperationError("Division by zero is not allowed", "DIVISION_BY_ZERO")
    ELSE OperationResult(CalculatorOutput(JsDiv(input.a, input.b), "divide"))
divide(input) ==
    IF JsStrictEq(input.b, Zero)
    THEN OperationError("Division by zero is not allowed", "DIVISION_BY_ZERO")
    ELSE OperationResult(CalculatorOutput(JsDiv(input.a, input.b), "divide"))

CalculatorInputs == [a : Numbers, b : Numbers]

Add(inputs) ==
    \E input \in inputs :
        /\ call' = [op |-> "add", input |-> input]
        /\ outcome' = Returned(add(input))
        /\ asked' = <<>>
        /\ UNCHANGED <<logger, log, provider, pkg, heap, cache, now>>

Subtract(inputs) ==
    \E input \in inputs :
        /\ call' = [op |-> "subtract", input |-> input]
        /\ outcome' = Returned(subtract(input))
        /\ asked' = <<>>
        /\ UNCHANGED <<logger, log, provider, pkg, heap, cache, now>>

Multiply(inputs) ==
    \E input \in inputs :
        /\ call' = [op |-> "multiply", input |-> input]
        /\ outcome' = Returned(multiply(input))
        /\ asked' = <<>>
        /\ UNCHANGED <<logger, log, provider, pkg, heap, cache, now>>

Divide(inputs) ==
    \E input \in inputs :
        /\ call' = [op |-> "divide", input |-> input]
        /\ outcome' = Returned(divide(input))
        /\ asked' = <<>>
        /\ UNCHANGED <<logger, log, provider, pkg, heap, cache, now>>

abs(value) == MathAbs(value)

isPositive(value) == JsLess(Zero, value)

isNegative(value) == JsLess(value, Zero)

\* variant: value is the number 0 itself, which -0 is not
isZero_SameValue(value) == value = Zero
isZero(value) == JsStrictEq(value, Zero)

AbsoluteValue(values) ==
    \E value \in values :
        /\ call' = [op |-> "abs", value |-> value]
        /\ outcome' = Returned(abs(value))
        /\ asked' = <<>>
        /\ UNCHANGED <<logger, log, provider, pkg, heap, cache, now>>

IsPositive(values) ==
    \E value \in values :
        /\ call' = [op |-> "isPositive", value |-> value]
        /\ outcome' = Returned(isPositive(value))
        /\ asked' = <<>>
        /\ UNCHANGED <<logger, log, provider, pkg, heap, cache, now>>

IsNegative(values) ==
    \E value \in values :
        /\ call' = [op |-> "isNegative", value |-> value]
        /\ outcome' = Returned(isNegative(value))
        /\ asked' = <<>>
        /\ UNCHANGED <<logger, log, provider, pkg, heap, cache, now>>

IsZero(values) ==
    \E value \in values :
        /\ call' = [op |-> "isZero", value |-> value]
        /\ outcome' = Returned(isZero(value))
        /\ asked' = <<>>
        /\ UNCHANGED <<logger, log, provider, pkg, heap, cache, now>>

-----------------------------------------------------------------------------
(* JavaScript strings: a string is the sequence of its UTF-16 code units.  *)

\* WhiteSpace and LineTerminator of ECMA-262, the units String.prototype.trim strips
WhiteSpaceUnits ==
    {9, 10, 11, 12, 13, 32, 160, 5760, 8232, 8233, 8239, 8287, 12288, 65279}
        \cup (8192..8202)

IsWhiteSpace(c) == c \in WhiteSpaceUnits

SetMin(S) == CHOOSE x \in S : \A y \in S : x <= y
SetMax(S) == CHOOSE x \in S : \A y \in S : x >= y

\* text.trim()
trim(s) ==
    LET keep == {i \in 1..Len(s) : ~IsWhiteSpace(s[i])}
    IN  IF keep = {} THEN <<>> ELSE SubSeq(s, SetMin(keep), SetMax(keep))

\* the upper case of one code unit: ASCII letters, and U+00DF (223), whose upper
\* case is the two units "SS"; the other units of
\* the model's alphabets (space, digits, punctuation, upper-case ASCII,
\* surrogates) have none
UpperOf(c) ==
    IF c \in 97..122 THEN <<c - 32>>
    ELSE IF c = 223 THEN <<83, 83>>
    ELSE <<c>>

\* text.toUpperCase()
RECURSIVE toUpperCase(_)
toUpperCase(s) == IF s = <<>> THEN <<>> ELSE UpperOf(Head(s)) \o toUpperCase(Tail(s))

\* the strings over alphabet A of length at most n
StringsUpTo(A, n) == UNION {[1..k -> A] : k \in 0..n}

-----------------------------------------------------------------------------
(* StringService.reverse.                                                  *)

IsHighSurrogate(c) == c \in 55296..56319     \* 0xD800..0xDBFF
IsLowSurrogate(c) == c \in 56320..57343      \* 0xDC00..0xDFFF

\* [...text]: the string iterator yields one element per code point, a high
\* surrogate followed by a low surrogate being one element of two units and
\* any other unit, an unpaired surrogate included, an element of its own
RECURSIVE Spread(_)
Spread(s) ==
    IF s = <<>> THEN <<>>
    ELSE IF Len(s) >= 2 /\ IsHighSurrogate(s[1]) /\ IsLowSurrogate(s[2])
         THEN <<SubSeq(s, 1, 2)>> \o Spread(SubSeq(s, 3, Len(s)))
         ELSE <<SubSeq(s, 1, 1)>> \o Spread(Tail(s))

\* array.reverse()
ArrayReverse(a) == [i \in 1..Len(a) |-> a[Len(a) + 1 - i]]

\* array.join('')
RECURSIVE Join(_)
Join(a) == IF a = <<>> THEN <<>> ELSE Head(a) \o Join(Tail(a))

\* variant: text.split('').reverse().join(''), by code unit
reverse_CodeUnits(text) == ArrayReverse(text)
reverse(text) == Join(ArrayReverse(Spread(text)))

Reverse(texts) ==
    \E text \in texts :
        /\ call' = [op |-> "reverse", text |-> text]
        /\ outcome' = Returned(reverse(text))
        /\ asked' = <<>>
        /\ UNCHANGED <<logger, log, provider, pkg, heap, cache, now>>

\* reverse called on what the last call of reverse returned; original keeps
\* the text that call was given
ReverseBack ==
    /\ call.op = "reverse"
    /\ call' = [op |-> "reverseBack", text |-> outcome.value, original |-> call.text]
    /\ outcome' = Returned(reverse(outcome.value))
    /\ asked' = <<>>
    /\ UNCHANGED <<logger, log, provider, pkg, heap, cache, now>>

-----------------------------------------------------------------------------
(* StringService.isPalindrome.                                             *)

\* the lower case of one code unit: the upper-case letters of ASCII and of
\* Latin-1; the other units of the model's alphabets (lower-case letters,
\* digits, space, punctuation, the combining acute accent, surrogates) are
\* their own lower case, and so is U+1D400
LowerOf(c) ==
    IF c \in (65..90) \cup (192..214) \cup (216..222) THEN c + 32 ELSE c

\* text.toLowerCase()
toLowerCase(s) == [i \in 1..Len(s) |-> LowerOf(s[i])]

\* the canonical composites of a base letter and U+0301 (769), the combining
\* acute accent: a and e give U+00E1 and U+00E9; space, comma, digits and
\* surrogates have none
AcuteComposite == (97 :> 225) @@ (101 :> 233)

\* text.normalize('NFC') over texts whose only combining mark is U+0301: a
\* mark that directly follows a base letter with a composite is composed
\* with it, and any other unit stays (a second mark after a composite, a
\* mark after a space or at the start)
RECURSIVE normalizeNFC(_)
normalizeNFC(s) ==
    IF s = <<>> THEN <<>>
    ELSE IF Len(s) >= 2 /\ s[1] \in DOMAIN AcuteComposite /\ s[2] = 769
         THEN <<AcuteComposite[s[1]]>> \o normalizeNFC(SubSeq(s, 3, Len(s)))
         ELSE <<s[1]>> \o normalizeNFC(Tail(s))

\* \p{L} or \p{N} of one code point, given as its one or two code units:
\* the letters and numbers of ASCII and Latin-1, and U+1D400 (the pair
\* 0xD835 0xDC00), a letter; a space, a comma, U+0301 (a mark) and an
\* unpaired surrogate are neither
IsLetterOrNumber(e) ==
    IF Len(e) = 1
    THEN e[1] \in (48..57) \cup (65..90) \cup (97..122) \cup {170, 178, 179, 181, 185, 186}
                    \cup (188..190) \cup (192..214) \cup (216..246) \cup (248..255)
    ELSE e = <<55349, 56320>>

\* text.replace(/[^\p{L}\p{N}]/gu, ''): with the u flag the pattern is
\* matched code point by code point
RemoveNonAlphanumeric(s) == Join(SelectSeq(Spread(s), IsLetterOrNumber))

isPalindrome(text) ==
    LET normalized == RemoveNonAlphanumeric(normalizeNFC(toLowerCase(text)))
    IN  normalized = reverse(normalized)

IsPalindrome(texts) ==
    \E text \in texts :
        /\ call' = [op |-> "isPalindrome", text |-> text]
        /\ outcome' = Returned(isPalindrome(text))
        /\ asked' = <<>>
        /\ UNCHANGED <<logger, log, provider, pkg, heap, cache, now>>

-----------------------------------------------------------------------------
(* StringService.countWords.                                               *)

\* text.split(/\s+/): the pieces of text between its maximal runs of
\* whitespace, the empty piece before a leading run and after a trailing
\* one included; \s matches the units that trim strips
RECURSIVE SplitOnWhiteSpace(_)
SplitOnWhiteSpace(s) ==
    LET spaces == {i \in 1..Len(s) : IsWhiteSpace(s[i])}
    IN  IF spaces = {} THEN <<s>>
        ELSE LET first == SetMin(spaces)
                 after == {i \in first..Len(s) : ~IsWhiteSpace(s[i])}
                 rest == IF after = {} THEN <<>> ELSE SubSeq(s, SetMin(after), Len(s))
             IN  <<SubSeq(s, 1, first - 1)>> \o SplitOnWhiteSpace(rest)

\* variant: the text is split without being trimmed
countWords_NoTrim(text) ==
    IF trim(text) = <<>> THEN 0 ELSE Len(SplitOnWhiteSpace(text))
countWords(text) ==
    IF trim(text) = <<>> THEN 0 ELSE Len(SplitOnWhiteSpace(trim(text)))

CountWords(texts) ==
    \E text \in texts :
        /\ call' = [op |-> "countWords", text |-> text]
        /\ outcome' = Returned(countWords(text))
        /\ asked' = <<>>
        /\ UNCHANGED <<logger, log, provider, pkg, heap, cache, now>>

-----------------------------------------------------------------------------
(* StringService.truncate.  maxLength is a whole number of code units.     *)

\* text.slice(0, end): a negative end counts from the end of text, and the
\* end is clamped to 0..text.length
slice(s, end) ==
    LET n == Len(s)
        to == IF end < 0 THEN (IF n + end < 0 THEN 0 ELSE n + end)
              ELSE (IF end > n THEN n ELSE end)
    IN  SubSeq(s, 1, to)

\* suffix = '...': the value of the parameter when the argument is left out
DefaultSuffix == <<46, 46, 46>>

SuffixOf(args) == IF "suffix" \in DOMAIN args THEN args.suffix ELSE DefaultSuffix

\* variant: the suffix is appended to maxLength units of text
truncate_SuffixOnTop(text, maxLength, suffix) ==
    IF maxLength < 0 THEN <<>>
    ELSE IF Len(text) <= maxLength THEN text
    ELSE IF Len(suffix) >= maxLength THEN slice(text, maxLength)
    ELSE slice(text, maxLength) \o suffix
\* variant: text that is exactly maxLength long is cut as well, and a
\* suffix as long as maxLength takes the place of the text
truncate_Strict(text, maxLength, suffix) ==
    IF maxLength < 0 THEN <<>>
    ELSE IF Len(text) < maxLength THEN text
    ELSE IF Len(suffix) > maxLength THEN slice(text, maxLength)
    ELSE slice(text, maxLength - Len(suffix)) \o suffix
truncate(text, maxLength, suffix) ==
    IF maxLength < 0 THEN <<>>
    ELSE IF Len(text) <= maxLength THEN text
    ELSE IF Len(suffix) >= maxLength THEN slice(text, maxLength)
    ELSE slice(text, maxLength - Len(suffix)) \o suffix

\* truncate(text, maxLength) or truncate(text, maxLength, suffix)
Truncate(argss) ==
    \E args \in argss :
        /\ call' = [op |-> "truncate", args |-> args]
        /\ outcome' = Returned(truncate(args.text, args.maxLength, SuffixOf(args)))
        /\ asked' = <<>>
        /\ UNCHANGED <<logger, log, provider, pkg, heap, cache, now>>

-----------------------------------------------------------------------------
(* ILoggerAdapter.  "mock" is MockLoggerAdapter, which records every call; *)
(* "throwing" is an implementation whose methods throw; "none" is no       *)
(* logger, where logger?.method() is skipped.                              *)

Loggers == {"none", "mock", "throwing"}

\* the loggers that keep the contract: every method returns
ConformingLoggers == {"none", "mock"}

\* logger?.<level>(message, ...args) over the recorded calls: what is recorded
\* afterwards, and whether the call threw
LoggerCall(lg, calls, level, message, args) ==
    IF lg = "mock"
    THEN [threw |-> FALSE,
          calls |-> Append(calls, [level |-> level, message |-> message, args |-> args])]
    ELSE [threw |-> lg = "throwing", calls |-> calls]

-----------------------------------------------------------------------------
(* StringService.process.                                                  *)

HasOption(input, key) == "options" \in DOMAIN input /\ key \in DOMAIN input.options

\* options.trim, options.uppercase as conditions: present and true
TruthyFlag(input, key) == HasOption(input, key) /\ input.options[key] = TRUE

\* options.prefix, options.suffix as conditions: present and not ''
TruthyString(input, key) == HasOption(input, key) /\ input.options[key] # <<>>

\* variant: blank text counts as empty, !text.trim()
isEmptyInput_Blank(text) == trim(text) = <<>>
\* !text, for a string: only '' is falsy
isEmptyInput(text) == text = <<>>

\* variants: length taken of the input; length counted in code points
StringProcessOutput_InputLength(original, processed) ==
    [original |-> original, processed |-> processed, length |-> Len(original)]
StringProcessOutput_CodePoints(original, processed) ==
    [original |-> original, processed |-> processed,
     length |-> Cardinality({i \in 1..Len(processed) : processed[i] \notin 56320..57343})]
\* lines 181-185: the output record
StringProcessOutput(original, processed) ==
    [original |-> original, processed |-> processed, length |-> Len(processed)]

\* variant: upper-casing moved after the prefix and the suffix
processOutput_UpperLast(input) ==
    LET p0 == input.text
        p1 == IF TruthyFlag(input, "trim") THEN trim(p0) ELSE p0
        p3 == IF TruthyString(input, "prefix") THEN input.options.prefix \o p1 ELSE p1
        p4 == IF TruthyString(input, "suffix") THEN p3 \o input.options.suffix ELSE p3
        p2 == IF TruthyFlag(input, "uppercase") THEN toUpperCase(p4) ELSE p4
    IN  StringProcessOutput(input.text, p2)
\* lines 162-185: the transformations and the output record
processOutput(input) ==
    LET p0 == input.text
        p1 == IF TruthyFlag(input, "trim") THEN trim(p0) ELSE p0
        p2 == IF TruthyFlag(input, "uppercase") THEN toUpperCase(p1) ELSE p1
        p3 == IF TruthyString(input, "prefix") THEN input.options.prefix \o p2 ELSE p2
        p4 == IF TruthyString(input, "suffix") THEN p3 \o input.options.suffix ELSE p3
    IN  StringProcessOutput(input.text, p4)

\* variant: the service remembers that it was called, and refuses empty
\* text only on its first call
process_Remembers(lg, calls, input) ==
    IF isEmptyInput(input.text) /\ calls = <<>>
    THEN [outcome |-> Returned(OperationError("Input text cannot be empty", "EMPTY_INPUT")),
          calls |-> calls]
    ELSE LET output == processOutput(input)
             logged == LoggerCall(lg, calls, "debug", "Processed string",
                                  <<[input |-> input, output |-> output]>>)
         IN  [outcome |-> IF logged.threw THEN Threw ELSE Returned(OperationResult(output)),
              calls |-> logged.calls]
\* variant: the debug call made before the test for empty text
process_LogsFirst(lg, calls, input) ==
    LET output == processOutput(input)
        logged == LoggerCall(lg, calls, "debug", "Processed string",
                             <<[input |-> input, output |-> output]>>)
    IN  IF isEmptyInput(input.text)
        THEN [outcome |-> Returned(OperationError("Input text cannot be empty", "EMPTY_INPUT")),
              calls |-> logged.calls]
        ELSE [outcome |-> IF logged.threw THEN Threw ELSE Returned(OperationResult(output)),
              calls |-> logged.calls]
\* process(input) on a service built with logger lg, over the recorded calls:
\* how the call ends and what is recorded afterwards
process(lg, calls, input) ==
    IF isEmptyInput(input.text)
    THEN [outcome |-> Returned(OperationError("Input text cannot be empty", "EMPTY_INPUT")),
          calls |-> calls]
    ELSE LET output == processOutput(input)
             logged == LoggerCall(lg, calls, "debug", "Processed string",
                                  <<[input |-> input, output |-> output]>>)
         IN  [outcome |-> IF logged.threw THEN Threw ELSE Returned(OperationResult(output)),
              calls |-> logged.calls]

Process(inputs) ==
    \E input \in inputs :
        LET r == process(logger, log, input)
        IN  /\ Len(r.calls) <= MaxLog
            /\ call' = [op |-> "process", input |-> input]
            /\ outcome' = r.outcome
            /\ log' = r.calls
            /\ asked' = <<>>
            /\ UNCHANGED <<logger, provider, pkg, heap, cache, now>>

\* the option objects with keys among trim, uppercase, prefix, suffix
NoOptions == [k \in {} |-> TRUE]

OptionObjects(prefixes, suffixes) ==
    {t @@ u @@ p @@ s :
        t \in {NoOptions, [trim |-> TRUE], [trim |-> FALSE]},
        u \in {NoOptions, [uppercase |-> TRUE], [uppercase |-> FALSE]},
        p \in {NoOptions} \cup {[prefix |-> x] : x \in prefixes},
        s \in {NoOptions} \cup {[suffix |-> x] : x \in suffixes}}

\* the inputs with text among texts: bare, and with each option object
StringProcessInputs(texts, options) ==
    {[text |-> t] : t \in texts} \cup {[text |-> t, options |-> o] : t \in texts, o \in options}

-----------------------------------------------------------------------------
(* The texts and options the model calls process with.                     *)

\* space, "a", U+00DF
ProcessAlphabet == {32, 97, 223}

Hello == <<104, 101, 108, 108, 111>>                        \* 'hello'
PaddedHello == <<32, 32>> \o Hello \o <<32, 32>>            \* '  hello  '
Emoji == <<55357, 56832>>                                   \* U+1F600 as 0xD83D 0xDE00
ArrowPrefix == <<62, 62, 32>>                               \* '>> '
ArrowSuffix == <<32, 60, 60>>                               \* ' <<'
ArrowHello == <<62, 62, 32, 72, 69, 76, 76, 79, 32, 60, 60>> \* '>> HELLO <<'

ProcessTexts == StringsUpTo(ProcessAlphabet, MaxLen) \cup {Hello, PaddedHello, Emoji}

ProcessPrefixes == {<<>>, <<32, 97>>, ArrowPrefix}
ProcessSuffixes == {<<>>, <<97, 32>>, ArrowSuffix}

ProcessInputs ==
    StringProcessInputs(ProcessTexts, OptionObjects(ProcessPrefixes, ProcessSuffixes))

-----------------------------------------------------------------------------
(* JavaScript values, as far as configurations need them: a value is       *)
(* [t |-> its type tag, v |-> its content]; an object's content is the     *)
(* function from its own property names to their values.                   *)

JsUndefined == [t |-> "undefined", v |-> "undefined"]
JsNull == [t |-> "null", v |-> "null"]
JsString(s) == [t |-> "string", v |-> s]
JsBoolean(b) == [t |-> "boolean", v |-> b]
JsNumber(x) == [t |-> "number", v |-> x]
JsObject(fields) == [t |-> "object", v |-> fields]

\* typeof x
typeof(x) == IF x.t = "null" THEN "object" ELSE x.t

\* x.key, for an object x
Get(x, key) == IF key \in DOMAIN x.v THEN x.v[key] ELSE JsUndefined

LibConfig(name, version, description) ==
    JsObject([name |-> name, version |-> version, description |-> description])

\* the kinds of value a property holds, and one value of each kind
FieldKinds == {"string", "number", "boolean", "null", "object"}

FieldValue(kind) ==
    CASE kind = "string" -> JsString("test")
      [] kind = "number" -> JsNumber(FromInt(1))
      [] kind = "boolean" -> JsBoolean(TRUE)
      [] kind = "null" -> JsNull
      [] kind = "undefined" -> JsUndefined
      [] kind = "object" -> JsObject(<<>>)

\* a value by its shape: the kind of a primitive, or the kinds of the
\* properties of an object
ValueOf(shape) ==
    IF shape.kind = "object"
    THEN JsObject([key \in DOMAIN shape.fields |-> FieldValue(shape.fields[key])])
    ELSE FieldValue(shape.kind)

-----------------------------------------------------------------------------
(* getLibraryVersion and the package.json files it reads.  A file is       *)
(* "absent", "unreadable" (it exists and reading it fails), "malformed"    *)
(* (not JSON), or holds JSON: "null", "noVersion" (an object with no       *)
(* version), "numericVersion" (version is a number), "version" (version is *)
(* the string '1.2.3').  url tells whether import.meta.url resolves.       *)

FileStates ==
    {"absent", "unreadable", "malformed", "null", "noVersion", "numericVersion", "version"}

existsSync(file) == file # "absent"

readFileSyncThrows(file) == file \in {"absent", "unreadable"}

JsonParseThrows(file) == file = "malformed"

\* JSON.parse(readFileSync(path, 'utf-8')), when neither throws
ParsedJson(file) ==
    CASE file = "null" -> JsNull
      [] file = "noVersion" -> JsObject([name |-> JsString("pkg")])
      [] file = "numericVersion" -> JsObject([name |-> JsString("pkg"), version |-> JsNumber(FromInt(1))])
      [] file = "version" -> JsObject([name |-> JsString("pkg"), version |-> JsString("1.2.3")])

\* variant: the fallback location is read whenever the primary one fails
ReadVersion_FallbackOnFailure(pk) ==
    IF ~pk.url THEN Threw
    ELSE LET failed == readFileSyncThrows(pk.primary) \/ JsonParseThrows(pk.primary)
             file == IF failed THEN pk.fallback ELSE pk.primary
         IN  IF readFileSyncThrows(file) \/ JsonParseThrows(file) THEN Threw
             ELSE IF ParsedJson(file).t = "null" THEN Threw
             ELSE Returned(Get(ParsedJson(file), "version"))
\* the body of the try block, lines 30-38: Threw where a statement throws
ReadVersion(pk) ==
    IF ~pk.url THEN Threw
    ELSE LET file == IF ~existsSync(pk.primary) THEN pk.fallback ELSE pk.primary
         IN  IF readFileSyncThrows(file) \/ JsonParseThrows(file) THEN Threw
             ELSE IF ParsedJson(file).t = "null" THEN Threw
             ELSE Returned(Get(ParsedJson(file), "version"))

\* variant: no catch
getLibraryVersion_NoCatch(pk) == ReadVersion(pk)
getLibraryVersion(pk) ==
    IF ReadVersion(pk) = Threw
    THEN Returned(JsString("0.0.0-development"))
    ELSE ReadVersion(pk)

\* the object literal of getDefaultConfig and of DefaultConfigProvider.getConfig
DefaultConfig(pk) ==
    LET version == getLibraryVersion(pk)
    IN  IF version = Threw THEN Threw
        ELSE Returned(LibConfig(JsString("@atomicloud/samples-bun-lib"), version.value,
                                JsString("Sample Bun Library Template")))

-----------------------------------------------------------------------------
(* IConfigProvider.  "mock" is MockConfigProvider(config, valid); "default" *)
(* is DefaultConfigProvider(valid); throws names the method of the         *)
(* provider that throws, if any.                                           *)

Provider(kind, config, valid, throws) ==
    [kind |-> kind, config |-> config, valid |-> valid, throws |-> throws]

\* configProvider.getConfig()
ProviderGetConfig(p, pk) ==
    IF p.throws = "getConfig" THEN Threw
    ELSE IF p.kind = "default" THEN DefaultConfig(pk)
    ELSE Returned(p.config)

\* configProvider.isValid()
ProviderIsValid(p) == IF p.throws = "isValid" THEN Threw ELSE Returned(p.valid)

\* a call made on the provider: the method and how it ended
Asked(method, result) == [method |-> method, result |-> result]

-----------------------------------------------------------------------------
(* ConfigService.                                                          *)

getConfig(p, pk) == ProviderGetConfig(p, pk)

\* the calls getConfig() makes on the provider
getConfigAsks(p, pk) == <<Asked("getConfig", ProviderGetConfig(p, pk))>>

\* variant: description is not looked at
isValidConfig_NoDescription(config) ==
    IF typeof(config) # "object" \/ config.t = "null" THEN FALSE
    ELSE /\ typeof(Get(config, "name")) = "string"
         /\ typeof(Get(config, "version")) = "string"
isValidConfig(config) ==
    IF typeof(config) # "object" \/ config.t = "null" THEN FALSE
    ELSE /\ typeof(Get(config, "name")) = "string"
         /\ typeof(Get(config, "version")) = "string"
         /\ typeof(Get(config, "description")) = "string"

getDefaultConfig(pk) == DefaultConfig(pk)

\* variant: only the shape of the configuration is looked at
isConfigValid_ShapeOnly(p, pk) ==
    LET config == ProviderGetConfig(p, pk)
    IN  IF config = Threw THEN Threw ELSE Returned(isValidConfig(config.value))
isConfigValid(p, pk) ==
    LET valid == ProviderIsValid(p)
        config == ProviderGetConfig(p, pk)
    IN  IF valid = Threw THEN Threw
        ELSE IF ~valid.value THEN Returned(FALSE)
        ELSE IF config = Threw THEN Threw
        ELSE Returned(isValidConfig(config.value))

\* variant: the configuration is fetched before isValid() is asked
isConfigValidAsks_ConfigFirst(p, pk) ==
    LET valid == ProviderIsValid(p)
        config == ProviderGetConfig(p, pk)
    IN  IF config = Threw THEN <<Asked("getConfig", config)>>
        ELSE <<Asked("getConfig", config), Asked("isValid", valid)>>
\* the calls isConfigValid() makes on the provider, in order: isValid() on
\* line 287, and getConfig() on line 292 when line 288 did not return
isConfigValidAsks(p, pk) ==
    LET valid == ProviderIsValid(p)
        config == ProviderGetConfig(p, pk)
    IN  IF valid = Threw THEN <<Asked("isValid", valid)>>
        ELSE IF ~valid.value THEN <<Asked("isValid", valid)>>
        ELSE <<Asked("isValid", valid), Asked("getConfig", config)>>

\* an action for an operation that records nothing
Calls(op, result) ==
    /\ call' = [op |-> op]
    /\ outcome' = result
    /\ asked' = <<>>
    /\ UNCHANGED <<logger, log, provider, pkg, heap, cache, now>>

GetConfig ==
    /\ call' = [op |-> "getConfig"]
    /\ outcome' = getConfig(provider, pkg)
    /\ asked' = getConfigAsks(provider, pkg)
    /\ UNCHANGED <<logger, log, provider, pkg, heap, cache, now>>

GetDefaultConfig == Calls("getDefaultConfig", getDefaultConfig(pkg))

\* the package.json files are replaced between two calls: getLibraryVersion
\* reads them anew at each call
ChangePackageJson(pkgs) ==
    \E pk \in pkgs \ {pkg} :
        /\ pkg' = pk
        /\ UNCHANGED <<logger, log, provider, call, outcome, asked, heap, cache, now>>

IsConfigValid ==
    /\ call' = [op |-> "isConfigValid"]
    /\ outcome' = isConfigValid(provider, pkg)
    /\ asked' = isConfigValidAsks(provider, pkg)
    /\ UNCHANGED <<logger, log, provider, pkg, heap, cache, now>>

\* isValidConfig(value), the values given by their shapes
IsValidConfig(shapes) ==
    \E shape \in shapes :
        /\ call' = [op |-> "isValidConfig", value |-> ValueOf(shape)]
        /\ outcome' = Returned(isValidConfig(ValueOf(shape)))
        /\ asked' = <<>>
        /\ UNCHANGED <<logger, log, provider, pkg, heap, cache, now>>

\* isValidConfig(getDefaultConfig()): isValidConfig called on what the last
\* call, of getDefaultConfig, returned
IsValidDefaultConfig ==
    /\ call.op = "getDefaultConfig"
    /\ outcome.kind = "returned"
    /\ call' = [op |-> "isValidConfig", value |-> outcome.value, of |-> "getDefaultConfig"]
    /\ outcome' = Returned(isValidConfig(outcome.value))
    /\ asked' = <<>>
    /\ UNCHANGED <<logger, log, provider, pkg, heap, cache, now>>

-----------------------------------------------------------------------------
(* LibraryService.                                                         *)

\* variant: the entry is recorded at level debug, without the configuration
getInfo_DebugNoContext(lg, calls, p, pk) ==
    LET cfg == getConfig(p, pk)
        logged == LoggerCall(lg, calls, "debug", "Getting library info", <<>>)
    IN  IF cfg = Threw THEN [outcome |-> Threw, calls |-> calls]
        ELSE [outcome |-> IF logged.threw THEN Threw ELSE cfg, calls |-> logged.calls]
\* getInfo() on a library built with logger lg over provider p
getInfo(lg, calls, p, pk) ==
    LET cfg == getConfig(p, pk)
        logged == LoggerCall(lg, calls, "info", "Getting library info", <<cfg.value>>)
    IN  IF cfg = Threw THEN [outcome |-> Threw, calls |-> calls]
        ELSE [outcome |-> IF logged.threw THEN Threw ELSE cfg, calls |-> logged.calls]

isReady(p, pk) == isConfigValid(p, pk)

\* the objects on the heap, by class: their private readonly fields
CalculatorObject == [class |-> "CalculatorService"]
StringObject(lg) == [class |-> "StringService", logger |-> lg]
ConfigObject(configProvider) == [class |-> "ConfigService", configProvider |-> configProvider]
LibraryObject(calculator, strings, config, lg) ==
    [class |-> "LibraryService", calculator |-> calculator, strings |-> strings,
     config |-> config, logger |-> lg]

\* the references to the LibraryService objects of heap h
Libraries(h) == {ref \in 1..Len(h) : h[ref].class = "LibraryService"}

\* this.calculator, this.strings of the LibraryService at reference lib
getCalculator_Strings(h, lib) == h[lib].strings
getCalculator(h, lib) == h[lib].calculator

getStringService(h, lib) == h[lib].strings

\* variant: the calculator of the first library is reused, and the String
\* service is built without the logger
createLibraryService_Shared(h, configProvider, lg) ==
    LET h1 == Append(h, ConfigObject(configProvider))
        h2 == Append(h1, CalculatorObject)
        h3 == Append(h2, StringObject("none"))
        calculator == IF Libraries(h) = {} THEN Len(h2) ELSE 2
        h4 == Append(h3, LibraryObject(calculator, Len(h3), Len(h1), lg))
    IN  [heap |-> h4, ref |-> Len(h4)]
\* createLibraryService(configProvider, logger) over heap h: each new
\* appends an object, whose reference is its place; the library is built
\* last, from the references of the three services
createLibraryService(h, configProvider, lg) ==
    LET h1 == Append(h, ConfigObject(configProvider))
        h2 == Append(h1, CalculatorObject)
        h3 == Append(h2, StringObject(lg))
        h4 == Append(h3, LibraryObject(Len(h2), Len(h3), Len(h1), lg))
    IN  [heap |-> h4, ref |-> Len(h4)]

CreateLibraryService ==
    LET r == createLibraryService(heap, provider, logger)
    IN  /\ Cardinality(Libraries(heap)) < MaxLibraries
        /\ call' = [op |-> "createLibraryService"]
        /\ outcome' = Returned(r.ref)
        /\ heap' = r.heap
        /\ asked' = <<>>
        /\ UNCHANGED <<logger, log, provider, pkg, cache, now>>

\* getInfo() on a library of the heap, with its logger and the provider of
\* its ConfigService
GetInfo ==
    \E lib \in Libraries(heap) :
        LET r == getInfo(heap[lib].logger, log, heap[heap[lib].config].configProvider, pkg)
        IN  /\ Len(r.calls) <= MaxLog
            /\ call' = [op |-> "getInfo", this |-> lib]
            /\ outcome' = r.outcome
            /\ log' = r.calls
            /\ asked' = getConfigAsks(heap[heap[lib].config].configProvider, pkg)
            /\ UNCHANGED <<logger, provider, pkg, heap, cache, now>>

IsReady ==
    \E lib \in Libraries(heap) :
        /\ call' = [op |-> "isReady", this |-> lib]
        /\ outcome' = isReady(heap[heap[lib].config].configProvider, pkg)
        /\ asked' = isConfigValidAsks(heap[heap[lib].config].configProvider, pkg)
        /\ UNCHANGED <<logger, log, provider, pkg, heap, cache, now>>

GetCalculator ==
    \E lib \in Libraries(heap) :
        /\ call' = [op |-> "getCalculator", this |-> lib]
        /\ outcome' = Returned(getCalculator(heap, lib))
        /\ asked' = <<>>
        /\ UNCHANGED <<logger, log, provider, pkg, heap, cache, now>>

GetStringService ==
    \E lib \in Libraries(heap) :
        /\ call' = [op |-> "getStringService", this |-> lib]
        /\ outcome' = Returned(getStringService(heap, lib))
        /\ asked' = <<>>
        /\ UNCHANGED <<logger, log, provider, pkg, heap, cache, now>>

-----------------------------------------------------------------------------
(* ICacheAdapter: MockCacheAdapter, a Map from key to { value, expires }.  *)
(* Each method is given the entries of the Map and t, what Date.now()      *)
(* returns during it, and gives its result and the entries it leaves.      *)

NoEntries == [key \in {} |-> key]   \* new Map()
StartTime == 10                     \* Date.now() when the model starts

\* a condition on a value that is undefined or a number: false for
\* undefined, 0, -0 and NaN
Truthy(x) == x.t = "number" /\ ~IsNaN(x.v) /\ ~IsZeroNum(x.v)

\* Date.now() > entry.expires
Expired(entry, t) == Truthy(entry.expires) /\ JsLess(entry.expires.v, FromInt(t))

\* this.cache.delete(key)
MapDelete(entries, key) == [k \in DOMAIN entries \ {key} |-> entries[k]]

\* this.cache.set(key, entry)
MapSet(entries, key, entry) ==
    [k \in DOMAIN entries \cup {key} |-> IF k = key THEN entry ELSE entries[k]]

\* variant: an entry expires at its deadline, not after it
get_ExpiresAtDeadline(entries, t, key) ==
    IF key \notin DOMAIN entries THEN [result |-> JsUndefined, cache |-> entries]
    ELSE IF Truthy(entries[key].expires) /\ ~JsLess(FromInt(t), entries[key].expires.v)
    THEN [result |-> JsUndefined, cache |-> MapDelete(entries, key)]
    ELSE [result |-> entries[key].value, cache |-> entries]
get(entries, t, key) ==
    IF key \notin DOMAIN entries THEN [result |-> JsUndefined, cache |-> entries]
    ELSE IF Expired(entries[key], t)
    THEN [result |-> JsUndefined, cache |-> MapDelete(entries, key)]
    ELSE [result |-> entries[key].value, cache |-> entries]

\* variant: a TTL that is given is always added to the clock
set_AnyTtl(entries, t, key, value, ttlMs) ==
    MapSet(entries, key,
           [value |-> value,
            expires |-> IF ttlMs.t = "number"
                        THEN JsNumber(JsAdd(FromInt(t), ttlMs.v)) ELSE JsUndefined])
\* set(key, value, ttlMs), ttlMs undefined when it is not given
set(entries, t, key, value, ttlMs) ==
    MapSet(entries, key,
           [value |-> value,
            expires |-> IF Truthy(ttlMs)
                        THEN JsNumber(JsAdd(FromInt(t), ttlMs.v)) ELSE JsUndefined])

\* variant: every entry is removed
delete_All(entries, key) == NoEntries
delete(entries, key) == MapDelete(entries, key)

\* variant: an expired entry is reported and kept
has_KeepsExpired(entries, t, key) ==
    IF key \notin DOMAIN entries THEN [result |-> FALSE, cache |-> entries]
    ELSE IF Expired(entries[key], t) THEN [result |-> FALSE, cache |-> entries]
    ELSE [result |-> TRUE, cache |-> entries]
\* variant: the expiry is not looked at
has_Held(entries, t, key) == [result |-> key \in DOMAIN entries, cache |-> entries]
has(entries, t, key) ==
    IF key \notin DOMAIN entries THEN [result |-> FALSE, cache |-> entries]
    ELSE IF Expired(entries[key], t)
    THEN [result |-> FALSE, cache |-> MapDelete(entries, key)]
    ELSE [result |-> TRUE, cache |-> entries]

clear(entries) == NoEntries

size(entries) == Cardinality(DOMAIN entries)

\* the keys, values and TTLs the model calls the cache with
CacheKeys == {"key1", "key2"}

CacheValueShapes == {"undefined", "value1", "value2"}

CacheValue(shape) ==
    IF shape = "undefined" THEN JsUndefined ELSE JsString(shape)

CacheTtlShapes == {"undefined", "0", "1", "2"}

CacheTtl(shape) ==
    CASE shape = "undefined" -> JsUndefined
      [] shape = "0" -> JsNumber(Zero)
      [] shape = "1" -> JsNumber(FromInt(1))
      [] shape = "2" -> JsNumber(FromInt(2))

CacheGet ==
    \E key \in CacheKeys :
        LET r == get(cache, now, key)
        IN  /\ call' = [op |-> "get", key |-> key]
            /\ outcome' = Returned(r.result)
            /\ cache' = r.cache
            /\ asked' = <<>>
            /\ UNCHANGED <<logger, log, provider, pkg, heap, now>>

CacheSet ==
    \E key \in CacheKeys, value \in CacheValueShapes, ttlMs \in CacheTtlShapes :
        /\ call' = [op |-> "set", key |-> key, value |-> value, ttlMs |-> ttlMs]
        /\ outcome' = Returned(JsUndefined)
        /\ cache' = set(cache, now, key, CacheValue(value), CacheTtl(ttlMs))
        /\ asked' = <<>>
        /\ UNCHANGED <<logger, log, provider, pkg, heap, now>>

CacheDelete ==
    \E key \in CacheKeys :
        /\ call' = [op |-> "delete", key |-> key]
        /\ outcome' = Returned(JsUndefined)
        /\ cache' = delete(cache, key)
        /\ asked' = <<>>
        /\ UNCHANGED <<logger, log, provider, pkg, heap, now>>

CacheHas ==
    \E key \in CacheKeys :
        LET r == has(cache, now, key)
        IN  /\ call' = [op |-> "has", key |-> key]
            /\ outcome' = Returned(r.result)
            /\ cache' = r.cache
            /\ asked' = <<>>
            /\ UNCHANGED <<logger, log, provider, pkg, heap, now>>

CacheClear ==
    /\ call' = [op |-> "clear"]
    /\ outcome' = Returned(JsUndefined)
    /\ cache' = clear(cache)
    /\ asked' = <<>>
    /\ UNCHANGED <<logger, log, provider, pkg, heap, now>>

CacheSize ==
    /\ call' = [op |-> "size"]
    /\ outcome' = Returned(size(cache))
    /\ asked' = <<>>
    /\ UNCHANGED <<logger, log, provider, pkg, heap, cache, now>>

\* a millisecond passes between two calls
Tick ==
    /\ now < StartTime + MaxClock
    /\ now' = now + 1
    /\ UNCHANGED <<logger, log, provider, pkg, call, outcome, asked, heap, cache>>

-----------------------------------------------------------------------------
(* A service on its own, with no capability: new CalculatorService(),      *)
(* new StringService().                                                    *)

NoCall == [op |-> "none"]
NoOutcome == [kind |-> "none"]
NoProvider == [kind |-> "none"]
NoPkg == [url |-> TRUE, primary |-> "absent", fallback |-> "absent"]

InitStandalone ==
    /\ logger = "none"
    /\ log = <<>>
    /\ provider = NoProvider
    /\ pkg = NoPkg
    /\ call = NoCall
    /\ outcome = NoOutcome
    /\ asked = <<>>
    /\ heap = <<>>
    /\ cache = NoEntries
    /\ now = StartTime

NextCalc ==
    \/ Add(CalculatorInputs)
    \/ Subtract(CalculatorInputs)
    \/ Multiply(CalculatorInputs)
    \/ Divide(CalculatorInputs)
    \/ AbsoluteValue(Numbers)
    \/ IsPositive(Numbers)
    \/ IsNegative(Numbers)
    \/ IsZero(Numbers)

SpecCalc == InitStandalone /\ [][NextCalc]_vars

-----------------------------------------------------------------------------
(* A StringService on its own, new StringService(logger), called once.     *)

InitProcess ==
    /\ logger \in ConformingLoggers
    /\ log = <<>>
    /\ provider = NoProvider
    /\ pkg = NoPkg
    /\ call = NoCall
    /\ outcome = NoOutcome
    /\ asked = <<>>
    /\ heap = <<>>
    /\ cache = NoEntries
    /\ now = StartTime

NextProcess == call = NoCall /\ Process(ProcessInputs)

SpecProcess == InitProcess /\ [][NextProcess]_vars

-----------------------------------------------------------------------------
(* reverse, and reverse of its result, over the texts of "a", "b", a high  *)
(* and a low surrogate.                                                    *)

ReverseAlphabet == {97, 98, 55357, 56832}

ReverseTexts == StringsUpTo(ReverseAlphabet, MaxLen)

NextReverse == Reverse(ReverseTexts) \/ ReverseBack

SpecReverse == InitStandalone /\ [][NextReverse]_vars

-----------------------------------------------------------------------------
(* isPalindrome over the texts of "a", "A", "e", "1", a space, a comma,    *)
(* the combining acute accent and the two surrogates of U+1D400: one call *)
(* on a new service.                                                       *)

PalindromeAlphabet == {97, 65, 101, 49, 32, 44, 769, 55349, 56320}

PalindromeTexts == StringsUpTo(PalindromeAlphabet, MaxPalindrome)

NextPalindrome == call = NoCall /\ IsPalindrome(PalindromeTexts)

SpecPalindrome == InitStandalone /\ [][NextPalindrome]_vars

-----------------------------------------------------------------------------
(* countWords over the texts of "a", "b", a space, a line feed and the     *)
(* ideographic space U+3000.                                               *)

WordsAlphabet == {97, 98, 32, 10, 12288}

WordsTexts == StringsUpTo(WordsAlphabet, MaxLen)

NextWords == CountWords(WordsTexts)

SpecWords == InitStandalone /\ [][NextWords]_vars

-----------------------------------------------------------------------------
(* truncate over the texts of "a" and "b" and the two texts of the unit    *)
(* tests, with suffixes of dots, the one-unit ellipsis U+2026 or none      *)
(* given, and a maxLength from -2 up to past the longest of them.          *)

HelloWorld == <<104, 101, 108, 108, 111, 32, 119, 111, 114, 108, 100>>

TruncateTexts == StringsUpTo({97, 98}, MaxLen) \cup {Hello, HelloWorld}

TruncateSuffixes == StringsUpTo({46}, MaxLen) \cup {<<8230>>}

TruncateLengths == (0 - 2)..(MaxLen + 1) \cup {5, 8, 10, 12}

TruncateArgs ==
    [text : TruncateTexts, maxLength : TruncateLengths]
        \cup [text : TruncateTexts, maxLength : TruncateLengths, suffix : TruncateSuffixes]

NextTruncate == call = NoCall /\ Truncate(TruncateArgs)

SpecTruncate == InitStandalone /\ [][NextTruncate]_vars

-----------------------------------------------------------------------------
(* isValidConfig, called once on a new ConfigService, over null,           *)
(* undefined, a string, a number, a boolean, and the objects that have any *)
(* of name, version, description and author, each a string, a number, a    *)
(* boolean, null or an empty object.  The values are drawn by shape.       *)

ConfigKeys == {"name", "version", "description"}

ConfigShapes ==
    {[kind |-> kind] : kind \in {"null", "undefined", "string", "number", "boolean"}}
        \cup {[kind |-> "object", fields |-> fields] :
                 fields \in UNION {[keys -> FieldKinds] :
                                     keys \in SUBSET (ConfigKeys \cup {"author"})}}

NextValidConfig == call = NoCall /\ IsValidConfig(ConfigShapes)

SpecValidConfig == InitStandalone /\ [][NextValidConfig]_vars

-----------------------------------------------------------------------------
(* Version resolution: a ConfigService over a DefaultConfigProvider, in    *)
(* every state of the two package.json locations and of import.meta.url.   *)

VersionPkgs == [url : BOOLEAN, primary : FileStates, fallback : FileStates]

DefaultProviders == {Provider("default", JsUndefined, valid, "never") : valid \in BOOLEAN}

InitVersion ==
    /\ logger = "none"
    /\ log = <<>>
    /\ provider \in DefaultProviders
    /\ pkg \in VersionPkgs
    /\ call = NoCall
    /\ outcome = NoOutcome
    /\ asked = <<>>
    /\ heap = <<>>
    /\ cache = NoEntries
    /\ now = StartTime

NextVersion ==
    \/ GetDefaultConfig
    \/ GetConfig
    \/ IsValidDefaultConfig

SpecVersion == InitVersion /\ [][NextVersion]_vars

-----------------------------------------------------------------------------
(* The library: createLibraryService(provider, logger), which builds a     *)
(* ConfigService over provider, a CalculatorService, a StringService with  *)
(* logger, and a LibraryService with the same logger; then any sequence of *)
(* calls on it and on the services it holds.                               *)

CustomConfig ==
    LibConfig(JsString("custom-lib"), JsString("2.0.0"), JsString("Custom Library"))

\* a configuration with no version
PartialConfig ==
    JsObject([name |-> JsString("custom-lib"), description |-> JsString("Custom Library")])

\* the providers whose methods return
ConformingProviders ==
    {Provider("mock", c, v, "never") : c \in {CustomConfig, PartialConfig}, v \in BOOLEAN}
        \cup {Provider("default", JsUndefined, v, "never") : v \in BOOLEAN}

\* and those with a method that throws
Providers ==
    ConformingProviders
        \cup {Provider("mock", CustomConfig, v, t) : v \in BOOLEAN, t \in {"isValid", "getConfig"}}

LibraryPkgs ==
    {[url |-> TRUE, primary |-> "version", fallback |-> "absent"],
     [url |-> TRUE, primary |-> "absent", fallback |-> "noVersion"],
     [url |-> TRUE, primary |-> "malformed", fallback |-> "version"]}

LibraryCalculatorInputs == [a : {FromInt(1), NaN}, b : {Zero, FromInt(-2)}]

LibraryProcessInputs ==
    {[text |-> <<>>],
     [text |-> <<97>>],
     [text |-> <<>>, options |-> [trim |-> TRUE]],
     [text |-> <<32>>, options |-> [trim |-> TRUE]],
     [text |-> <<97>>, options |-> [uppercase |-> TRUE, prefix |-> <<32>>]]}

InitLibrary(loggers, providers) ==
    /\ logger \in loggers
    /\ log = <<>>
    /\ provider \in providers
    /\ pkg \in LibraryPkgs
    /\ call = NoCall
    /\ outcome = NoOutcome
    /\ asked = <<>>
    /\ heap = createLibraryService(<<>>, provider, logger).heap
    /\ cache = NoEntries
    /\ now = StartTime

Init == InitLibrary(ConformingLoggers, ConformingProviders)

InitAnyCapability == InitLibrary(Loggers, Providers)

Next ==
    \/ Add(LibraryCalculatorInputs)
    \/ Subtract(LibraryCalculatorInputs)
    \/ Multiply(LibraryCalculatorInputs)
    \/ Divide(LibraryCalculatorInputs)
    \/ Process(LibraryProcessInputs)
    \/ GetConfig
    \/ GetDefaultConfig
    \/ IsConfigValid
    \/ GetInfo
    \/ IsReady

\* the library over capabilities that keep their contracts
Spec == Init /\ [][Next]_vars

\* the library over any logger and any provider
SpecAnyCapability == InitAnyCapability /\ [][Next]_vars

-----------------------------------------------------------------------------
(* The cache: new MockCacheAdapter(), then any sequence of calls on it     *)
(* while the clock advances by up to MaxClock milliseconds.                *)

NextCache ==
    \/ CacheGet
    \/ CacheSet
    \/ CacheDelete
    \/ CacheHas
    \/ CacheClear
    \/ CacheSize
    \/ Tick

SpecCache == InitStandalone /\ [][NextCache]_vars

-----------------------------------------------------------------------------
(* The library as in Spec, in a process that lives while the package.json  *)
(* files are replaced.                                                     *)

NextHistory == Next \/ ChangePackageJson(LibraryPkgs)

SpecHistory == Init /\ [][NextHistory]_vars

-----------------------------------------------------------------------------
(* The factory: createLibraryService(provider, logger) called up to        *)
(* MaxLibraries times over the same capabilities, and the methods of the   *)
(* libraries it returned called in any order.                              *)

InitFactory ==
    /\ logger \in ConformingLoggers
    /\ log = <<>>
    /\ provider \in ConformingProviders
    /\ pkg \in LibraryPkgs
    /\ call = NoCall
    /\ outcome = NoOutcome
    /\ asked = <<>>
    /\ heap = <<>>
    /\ cache = NoEntries
    /\ now = StartTime

NextFactory ==
    \/ CreateLibraryService
    \/ GetInfo
    \/ IsReady
    \/ GetCalculator
    \/ GetStringService

SpecFactory == InitFactory /\ [][NextFactory]_vars

-----------------------------------------------------------------------------
(* Properties of CalculatorService, under SpecCalc.                        *)

\* C1: divide returns the failure with code DIVISION_BY_ZERO and error
\* 'Division by zero is not allowed' exactly when b is zero (0 or -0); for
\* every other b, NaN and the infinities included, it returns the success
\* whose result is a / b and whose operation is 'divide'.
C1_DivideFailsExactlyOnZero ==
    call.op = "divide" =>
        /\ outcome.kind = "returned"
        /\ IF call.input.b.n = 0 /\ call.input.b.d = 1
           THEN outcome.value = [success |-> FALSE,
                                 error |-> "Division by zero is not allowed",
                                 code |-> "DIVISION_BY_ZERO"]
           ELSE /\ outcome.value.success = TRUE
                /\ outcome.value.data.result = JsDiv(call.input.a, call.input.b)
                /\ outcome.value.data.operation = "divide"

\* divide by negative zero has failed
C1_Witness ==
    /\ call.op = "divide"
    /\ call.input.b = NegZero
    /\ outcome.kind = "returned"
    /\ outcome.value.success = FALSE

\* C2: add, subtract and multiply return, for every pair of operands, the
\* success whose result is a + b, a - b, a * b and whose operation is 'add',
\* 'subtract', 'multiply'.
C2_ArithmeticIsTotal ==
    call.op \in {"add", "subtract", "multiply"} =>
        /\ outcome.kind = "returned"
        /\ outcome.value.success = TRUE
        /\ DOMAIN outcome.value = {"success", "data"}
        /\ outcome.value.data.operation = call.op
        /\ outcome.value.data.result =
              CASE call.op = "add" -> JsAdd(call.input.a, call.input.b)
                [] call.op = "subtract" -> JsSub(call.input.a, call.input.b)
                [] call.op = "multiply" -> JsMul(call.input.a, call.input.b)

\* subtract of a negative operand from zero has succeeded
C2_Witness ==
    /\ call.op = "subtract"
    /\ call.input.a = Zero
    /\ call.input.b = FromInt(-MaxNum)
    /\ outcome.kind = "returned"
    /\ outcome.value.success = TRUE
    /\ outcome.value.data.result = FromInt(MaxNum)

-----------------------------------------------------------------------------
(* Properties of StringService.process, under SpecProcess.                 *)

ProcessReturned == call.op = "process" /\ outcome.kind = "returned"

ProcessSucceeded == ProcessReturned /\ outcome.value.success = TRUE

\* the value of a flag option of the last call, absent counting as false
FlagOf(key) ==
    /\ "options" \in DOMAIN call.input
    /\ key \in DOMAIN call.input.options
    /\ call.input.options[key]

\* the value of a string option of the last call, absent counting as ''
StringOf(key) ==
    IF "options" \in DOMAIN call.input /\ key \in DOMAIN call.input.options
    THEN call.input.options[key]
    ELSE <<>>

\* C5: process fails with code EMPTY_INPUT and error 'Input text cannot be
\* empty' exactly when text is '', whatever the options; every other text,
\* whitespace-only text included, yields a success.
C5_EmptyInputOnly ==
    call.op = "process" =>
        /\ outcome.kind = "returned"
        /\ IF Len(call.input.text) = 0
           THEN outcome.value = [success |-> FALSE,
                                 error |-> "Input text cannot be empty",
                                 code |-> "EMPTY_INPUT"]
           ELSE outcome.value.success = TRUE

\* whitespace-only text with trim set has succeeded
C5_Witness ==
    /\ ProcessSucceeded
    /\ call.input.text = <<32, 32>>
    /\ FlagOf("trim")

\* C6: for non-empty text the processed text is prefix + U(T(text)) + suffix,
\* where T trims when trim is set, U upper-cases when uppercase is set, and
\* an absent option counts as unset: the prefix and suffix are verbatim, and
\* with no option set the processed text is the input.
C6_FixedOrder ==
    (call.op = "process" /\ call.input.text # <<>>) =>
        /\ ProcessSucceeded
        /\ LET trimmed == IF FlagOf("trim") THEN trim(call.input.text) ELSE call.input.text
               cased == IF FlagOf("uppercase") THEN toUpperCase(trimmed) ELSE trimmed
               processed == outcome.value.data.processed
               np == Len(StringOf("prefix"))
               ns == Len(StringOf("suffix"))
           IN  /\ processed = StringOf("prefix") \o cased \o StringOf("suffix")
               /\ SubSeq(processed, 1, np) = StringOf("prefix")
               /\ SubSeq(processed, Len(processed) - ns + 1, Len(processed)) = StringOf("suffix")
               /\ ("options" \notin DOMAIN call.input \/ call.input.options = NoOptions)
                     => processed = call.input.text

\* padded text was trimmed and upper-cased between a lower-case prefix that
\* starts with a space and a lower-case suffix that ends with one
C6_Witness ==
    /\ ProcessSucceeded
    /\ call.input.text = <<32, 97, 32>>
    /\ FlagOf("trim")
    /\ FlagOf("uppercase")
    /\ StringOf("prefix") = <<32, 97>>
    /\ StringOf("suffix") = <<97, 32>>
    /\ outcome.value.data.processed = <<32, 97, 65, 97, 32>>

\* C7: in every success of process, original is the text passed and length
\* is the number of code units of processed.
C7_OriginalAndLength ==
    ProcessSucceeded =>
        /\ outcome.value.data.original = call.input.text
        /\ outcome.value.data.length = Len(outcome.value.data.processed)

\* U+00DF between spaces, trimmed and upper-cased: three units in, two out
C7_Witness ==
    /\ ProcessSucceeded
    /\ call.input.text = <<32, 223, 32>>
    /\ FlagOf("trim")
    /\ FlagOf("uppercase")
    /\ outcome.value.data.original = <<32, 223, 32>>
    /\ outcome.value.data.processed = <<83, 83>>
    /\ outcome.value.data.length = 2

\* the call of the README's String Service example
ReadmeInput ==
    [text |-> Hello,
     options |-> [uppercase |-> TRUE, prefix |-> ArrowPrefix, suffix |-> ArrowSuffix]]

-----------------------------------------------------------------------------
(* Properties of the library, under Spec and SpecAnyCapability.            *)

FallibleOps == {"add", "subtract", "multiply", "divide", "process"}

\* C3: every Result returned by add, subtract, multiply, divide or process
\* is one variant or the other: success true with data and neither error
\* nor code, or success false with error and code and no data.
C3_ExactlyOneVariant ==
    (call.op \in FallibleOps /\ outcome.kind = "returned") =>
        LET r == outcome.value
            fields == DOMAIN r
        IN  /\ "success" \in fields
            /\ IF r.success
               THEN fields = {"success", "data"}
               ELSE fields = {"success", "error", "code"}
            /\ ("data" \in fields) # ("error" \in fields)
            /\ ("error" \in fields) = ("code" \in fields)

\* divide by zero has returned the failure variant after the logger has
\* recorded a success of process
C3_Witness ==
    /\ call.op = "divide"
    /\ IsZeroNum(call.input.b)
    /\ outcome.kind = "returned"
    /\ DOMAIN outcome.value = {"success", "error", "code"}
    /\ Len(log) > 0
    /\ log[1].level = "debug"

CapabilityThrew ==
    \/ /\ call.op = "process"
       /\ call.input.text # <<>>
       /\ logger = "throwing"
    \/ /\ call.op = "getConfig"
       /\ provider.throws = "getConfig"
    \/ /\ call.op = "getInfo"
       /\ provider.throws = "getConfig" \/ logger = "throwing"
    \/ /\ call.op \in {"isConfigValid", "isReady"}
       /\ \/ provider.throws = "isValid"
          \/ provider.valid /\ provider.throws = "getConfig"

ProcessedEntry(input, output) ==
    [level |-> "debug", message |-> "Processed string",
     args |-> <<[input |-> input, output |-> output]>>]

\* C9: a step of process on a service built with a (recording) logger
\* appends exactly one entry, at level debug with message 'Processed
\* string' and the call's input and output, when the call succeeds, and
\* leaves the recorded calls alone when it fails; built without a logger it
\* records nothing and returns what the service with a logger returns.
C9_OneDebugEntryPerSuccess ==
    [][call'.op = "process" =>
          /\ outcome'.kind = "returned"
          /\ IF logger = "mock" /\ outcome'.value.success
             THEN log' = Append(log, ProcessedEntry(call'.input, outcome'.value.data))
             ELSE log' = log
          /\ logger = "none" => log' = <<>>
          /\ outcome' = process(IF logger = "mock" THEN "none" ELSE "mock",
                                <<>>, call'.input).outcome
      ]_vars

\* after two successes were recorded, a failing call left both entries
C9_Witness ==
    /\ logger = "mock"
    /\ call.op = "process"
    /\ outcome.kind = "returned"
    /\ outcome.value.success = FALSE
    /\ Len(log) = 2
    /\ log[1].level = "debug"
    /\ log[2].level = "debug"
    /\ log[1].args # log[2].args

-----------------------------------------------------------------------------
(* Properties of StringService.reverse, under SpecReverse.                 *)

\* C10 as claimed: reverse(reverse(s)) = s for every sequence of code units.
C10_Involution ==
    call.op = "reverseBack" => outcome.value = call.original

\* s holds a low surrogate with no high surrogate before it, followed at
\* once by a high surrogate with no low surrogate after it
LoneLowThenLoneHigh(s) ==
    \E i \in 1..(Len(s) - 1) :
        /\ IsLowSurrogate(s[i])
        /\ i > 1 => ~IsHighSurrogate(s[i - 1])
        /\ IsHighSurrogate(s[i + 1])
        /\ i + 2 <= Len(s) => ~IsLowSurrogate(s[i + 2])

\* every surrogate of s is half of a pair
WellFormed(s) ==
    \A i \in 1..Len(s) :
        /\ IsHighSurrogate(s[i]) => (i < Len(s) /\ IsLowSurrogate(s[i + 1]))
        /\ IsLowSurrogate(s[i]) => (i > 1 /\ IsHighSurrogate(s[i - 1]))

\* C10 as amended: reverse(reverse(s)) = s exactly for the strings s with no
\* unpaired low surrogate immediately followed by an unpaired high
\* surrogate; so for every well-formed string, surrogate pairs included.
C10_InvolutionUnlessPairForms ==
    call.op = "reverseBack" =>
        /\ outcome.value = call.original <=> ~LoneLowThenLoneHigh(call.original)
        /\ WellFormed(call.original) => outcome.value = call.original

\* a text with a surrogate pair after a letter was reversed twice
C10_Witness ==
    /\ call.op = "reverseBack"
    /\ call.original = <<97, 55357, 56832>>
    /\ call.text = <<55357, 56832, 97>>
    /\ outcome.value = call.original

\* C11: reverse(text) is the code points of text in reverse order, not its
\* code units: the result has as many code units as text, every high
\* surrogate followed by a low surrogate in text is found in the result as
\* the same two units in the same order, at the mirrored place, and every
\* other unit of text is found at its mirrored place.
C11_CodePointOrder ==
    call.op = "reverse" =>
        LET s == call.text
            r == outcome.value
            n == Len(s)
            LeadsPair(i) == i < n /\ IsHighSurrogate(s[i]) /\ IsLowSurrogate(s[i + 1])
            TrailsPair(i) == i > 1 /\ LeadsPair(i - 1)
        IN  /\ outcome.kind = "returned"
            /\ Len(r) = n
            /\ \A i \in 1..n :
                   IF LeadsPair(i) THEN r[n - i] = s[i] /\ r[n - i + 1] = s[i + 1]
                   ELSE TrailsPair(i) \/ r[n + 1 - i] = s[i]

\* a text of a surrogate pair and a letter was reversed: the letter came
\* first and the pair kept its order
C11_Witness ==
    /\ call.op = "reverse"
    /\ call.text = <<55357, 56832, 98>>
    /\ outcome.value = <<98, 55357, 56832>>

-----------------------------------------------------------------------------
(* Properties of StringService.isPalindrome, under SpecPalindrome.         *)

\* the code points of a read the same in both directions
ReadsTheSameBothWays(a) == \A i \in 1..Len(a) : a[i] = a[Len(a) + 1 - i]

\* text without its spaces and its punctuation
WithoutSpacesAndPunctuation(text) == SelectSeq(text, LAMBDA c : c \notin {32, 44})

\* C12: isPalindrome(text) is true exactly when the letters and digits
\* of the lower-cased, normalized text read the same in both directions; so
\* the answer is the same for the text in upper case, in lower case and
\* without its spaces and punctuation, and it is true for a text with no
\* letter or digit, the empty text included.
C12_IgnoresCaseSpacesPunctuation ==
    call.op = "isPalindrome" =>
        LET text == call.text
            kept == Spread(RemoveNonAlphanumeric(normalizeNFC(toLowerCase(text))))
        IN  /\ outcome = Returned(ReadsTheSameBothWays(kept))
            /\ kept = <<>> => outcome.value
            /\ outcome.value = isPalindrome(toUpperCase(text))
            /\ outcome.value = isPalindrome(toLowerCase(text))
            /\ outcome.value = isPalindrome(WithoutSpacesAndPunctuation(text))

-----------------------------------------------------------------------------
(* Properties of StringService.countWords, under SpecWords.                *)

\* the places of s where a maximal run of non-whitespace units starts
RunStarts(s) ==
    {i \in 1..Len(s) : ~IsWhiteSpace(s[i]) /\ (i = 1 \/ IsWhiteSpace(s[i - 1]))}

-----------------------------------------------------------------------------
(* Properties of StringService.truncate, under SpecTruncate.               *)

\* C14: for maxLength n >= 0 the result of truncate(s, n, suffix) has at
\* most n units; when s is longer than n and the suffix is shorter than n
\* it has exactly n units, the last of which are the whole suffix.
C14_LengthBound ==
    (call.op = "truncate" /\ call.args.maxLength >= 0) =>
        LET s == call.args.text
            n == call.args.maxLength
            suffix == SuffixOf(call.args)
            r == outcome.value
        IN  /\ outcome.kind = "returned"
            /\ Len(r) <= n
            /\ (Len(s) > n /\ Len(suffix) < n) =>
                   /\ Len(r) = n
                   /\ SubSeq(r, n - Len(suffix) + 1, n) = suffix

\* truncate('hello world', 8) returned 'hello...'
C14_Witness ==
    /\ call.op = "truncate"
    /\ call.args = [text |-> HelloWorld, maxLength |-> 8]
    /\ outcome.value = <<104, 101, 108, 108, 111, 46, 46, 46>>

\* C15: truncate returns '' for a negative maxLength; returns text as it is
\* when text.length <= maxLength; and when text is longer than maxLength and
\* the suffix is at least maxLength long, returns the first maxLength units
\* of text and nothing of the suffix.
C15_EdgeCases ==
    call.op = "truncate" =>
        LET s == call.args.text
            n == call.args.maxLength
            suffix == SuffixOf(call.args)
            r == outcome.value
        IN  /\ n < 0 => r = <<>>
            /\ (n >= 0 /\ Len(s) <= n) => r = s
            /\ (n >= 0 /\ Len(s) > n /\ Len(suffix) >= n) => r = SubSeq(s, 1, n)

\* a text of three units was cut to two with the default suffix, which is
\* longer than two and was dropped
C15_Witness ==
    /\ call.op = "truncate"
    /\ call.args = [text |-> <<97, 97, 98>>, maxLength |-> 2]
    /\ outcome.value = <<97, 97>>

-----------------------------------------------------------------------------
(* Properties of abs, isPositive, isNegative and isZero, under SpecCalc.   *)

SignOps == {"isPositive", "isNegative", "isZero"}

\* what the predicate named op says of x: what the last call returned when
\* it was that predicate, and what the predicate returns otherwise
Verdict(op, x) ==
    IF call.op = op THEN outcome.value
    ELSE CASE op = "isPositive" -> isPositive(x)
           [] op = "isNegative" -> isNegative(x)
           [] op = "isZero" -> isZero(x)

\* abs(x) = r is non-negative, is x when x >= 0 and is -x when x < 0
IsMagnitudeOf(r, x) ==
    /\ ~JsLess(r, Zero) /\ ~IsNaN(r)
    /\ ~JsLess(x, Zero) => JsStrictEq(r, x)
    /\ JsLess(x, Zero) => JsStrictEq(r, JsNeg(x))

\* C16 as claimed: for every number x exactly one of isPositive(x),
\* isNegative(x), isZero(x) is true, and abs(x) is non-negative, x itself
\* when x >= 0 and -x when x < 0.
C16_Trichotomy ==
    /\ call.op \in SignOps =>
           Cardinality({op \in SignOps : Verdict(op, call.value)}) = 1
    /\ call.op = "abs" => IsMagnitudeOf(outcome.value, call.value)

\* C16 as amended: the same for every number x other than NaN, for which
\* all three predicates are false and abs is NaN.
C16_TrichotomyExceptNaN ==
    /\ call.op \in SignOps =>
           Cardinality({op \in SignOps : Verdict(op, call.value)}) =
               IF IsNaN(call.value) THEN 0 ELSE 1
    /\ call.op = "abs" =>
           IF IsNaN(call.value) THEN IsNaN(outcome.value)
           ELSE IsMagnitudeOf(outcome.value, call.value)

\* isZero(-0) returned true
C16_Witness ==
    /\ call.op = "isZero"
    /\ call.value = NegZero
    /\ outcome.value = TRUE

-----------------------------------------------------------------------------
(* Properties of ConfigService and LibraryService.isReady, under Spec.     *)

\* C17: isConfigValid() is true exactly when the provider's isValid() is
\* true and the configuration the provider returns passes isValidConfig, so
\* it is false whenever isValid() is false, whatever the configuration;
\* isReady() returns what isConfigValid() returns.
C17_ValidOnlyWhenBoth ==
    call.op \in {"isConfigValid", "isReady"} =>
        /\ outcome.kind = "returned"
        /\ outcome.value =
               (ProviderIsValid(provider).value
                    /\ isValidConfig(ProviderGetConfig(provider, pkg).value))
        /\ ~ProviderIsValid(provider).value => outcome.value = FALSE
        /\ call.op = "isReady" => outcome = isConfigValid(provider, pkg)

\* isReady() returned false on a library whose provider holds a well-formed
\* configuration and reports itself not valid
C17_Witness ==
    /\ call.op = "isReady"
    /\ provider = Provider("mock", CustomConfig, FALSE, "never")
    /\ outcome = Returned(FALSE)

-----------------------------------------------------------------------------
(* Properties of ConfigService.isValidConfig, under SpecValidConfig.       *)

\* C18: isValidConfig(value) is true exactly when value is an object, not
\* null, that has name, version and description and each of them is a
\* string; so it is false for null, undefined, a primitive, an object
\* without one of the three and an object where one of them is not a string.
C18_ShapeCheck ==
    call.op = "isValidConfig" =>
        LET value == call.value
        IN  outcome = Returned(/\ value.t = "object"
                               /\ \A key \in ConfigKeys :
                                      /\ key \in DOMAIN value.v
                                      /\ value.v[key].t = "string")

\* isValidConfig returned false for an object whose version is a number
C18_Witness ==
    /\ call.op = "isValidConfig"
    /\ call.value.t = "object"
    /\ DOMAIN call.value.v = ConfigKeys
    /\ call.value.v.name.t = "string"
    /\ call.value.v.version.t = "number"
    /\ call.value.v.description.t = "string"
    /\ outcome = Returned(FALSE)

-----------------------------------------------------------------------------
(* Properties of version resolution, under SpecVersion.                    *)

\* C19: isValidConfig(getDefaultConfig()) is true in every state of the
\* package.json files: absent, unreadable, not JSON, JSON with or without a
\* string version.
C19_DefaultConfigAlwaysValid ==
    (call.op = "isValidConfig" /\ "of" \in DOMAIN call) => outcome = Returned(TRUE)

\* the package.json that version resolution reads: the primary location,
\* or the fallback one when nothing exists at the primary
ResolvedFile == IF pkg.primary = "absent" THEN pkg.fallback ELSE pkg.primary

\* C20: version resolution reads the primary package.json and, only when
\* no file exists there, the fallback one; when anything fails (no file at
\* either place, a read error, a parse error) the version is the string
\* '0.0.0-development', and getDefaultConfig and the default provider's
\* getConfig return in every case.
C20_FallbackVersion ==
    call.op \in {"getDefaultConfig", "getConfig"} =>
        /\ outcome.kind = "returned"
        /\ LET version == outcome.value.v.version
           IN  /\ (~pkg.url \/ ResolvedFile \in {"absent", "unreadable", "malformed", "null"}) =>
                      (version.t = "string" /\ version.v = "0.0.0-development")
               /\ (pkg.url /\ ResolvedFile = "version") =>
                      (version.t = "string" /\ version.v = "1.2.3")
        /\ pkg.primary # "absent" =>
               outcome = DefaultConfig([pkg EXCEPT !.fallback = "absent"])

\* the default provider's getConfig returned the fallback version where the
\* primary package.json exists and cannot be read, a good one being at the
\* fallback location
C20_Witness ==
    /\ call.op = "getConfig"
    /\ pkg = [url |-> TRUE, primary |-> "unreadable", fallback |-> "version"]
    /\ outcome.kind = "returned"
    /\ outcome.value.v.version.t = "string"
    /\ outcome.value.v.version.v = "0.0.0-development"

-----------------------------------------------------------------------------
(* Properties of LibraryService.getInfo, under Spec.                       *)

InfoEntry(cfg) ==
    [level |-> "info", message |-> "Getting library info", args |-> <<cfg>>]

\* C21: a step of getInfo returns the configuration the provider returns;
\* on a library built with a (recording) logger it appends exactly one
\* entry, at level info with message 'Getting library info' and that
\* configuration; built without a logger it records nothing and returns the
\* same; and getInfo called again returns what it returned before.
C21_InfoReturnedAndLogged ==
    [][call'.op = "getInfo" =>
          /\ outcome' = ProviderGetConfig(provider, pkg)
          /\ outcome'.kind = "returned"
          /\ IF logger = "mock"
             THEN log' = Append(log, InfoEntry(outcome'.value))
             ELSE log' = log
          /\ logger = "none" => log' = <<>>
          /\ call.op = "getInfo" => outcome' = outcome
      ]_vars

\* getInfo was called twice on a library with a logger: two equal info
\* entries are recorded
C21_Witness ==
    /\ logger = "mock"
    /\ call.op = "getInfo"
    /\ outcome.kind = "returned"
    /\ Len(log) = 2
    /\ log[1] = InfoEntry(outcome.value)
    /\ log[2] = log[1]

-----------------------------------------------------------------------------
(* Properties of the LibraryService accessors and of the factory, under    *)
(* SpecFactory.                                                            *)

\* the references createLibraryService gave to the constructor of the
\* library at reference lib: the three objects built just before it
PassedToConstructor(lib) ==
    [config |-> lib - 3, calculator |-> lib - 2, strings |-> lib - 1]

\* C22: after any sequence of operations getCalculator() and
\* getStringService() return the references the library's constructor was
\* given, to a CalculatorService and a StringService; and no step replaces
\* or changes an object that exists.
C22_SameReferences ==
    /\ [](call.op = "getCalculator" =>
              /\ outcome = Returned(PassedToConstructor(call.this).calculator)
              /\ heap[outcome.value].class = "CalculatorService")
    /\ [](call.op = "getStringService" =>
              /\ outcome = Returned(PassedToConstructor(call.this).strings)
              /\ heap[outcome.value].class = "StringService")
    /\ [][\A ref \in 1..Len(heap) : Len(heap') >= ref /\ heap'[ref] = heap[ref]]_vars

\* getCalculator() on the second library, after getInfo was logged twice,
\* returned the second calculator
C22_Witness ==
    /\ call = [op |-> "getCalculator", this |-> 8]
    /\ outcome = Returned(6)
    /\ Len(log) = 2


\* the services a library holds
ServicesOf(h, lib) == {h[lib].calculator, h[lib].strings, h[lib].config}

\* C23: a step of createLibraryService(provider, logger) returns a new
\* LibraryService whose Calculator, String and Config services did not
\* exist before and are held by no other library; its ConfigService has
\* the given provider, and its StringService and the library itself have
\* the given logger.  It needs no further setup: isReady() on it is true
\* when the provider is valid and returns a well-formed configuration.
C23_FreshAndWired ==
    /\ [][call'.op = "createLibraryService" =>
              LET lib == outcome'.value
                  new == heap'[lib]
              IN  /\ outcome'.kind = "returned"
                  /\ lib \notin 1..Len(heap)
                  /\ new.class = "LibraryService"
                  /\ heap'[new.calculator].class = "CalculatorService"
                  /\ heap'[new.strings].class = "StringService"
                  /\ heap'[new.config].class = "ConfigService"
                  /\ ServicesOf(heap', lib) \cap (1..Len(heap)) = {}
                  /\ \A other \in Libraries(heap') \ {lib} :
                         ServicesOf(heap', other) \cap ServicesOf(heap', lib) = {}
                  /\ heap'[new.config].configProvider = provider
                  /\ heap'[new.strings].logger = logger
                  /\ new.logger = logger
         ]_vars
    /\ []((/\ call.op = "isReady"
            /\ ProviderIsValid(provider).value
            /\ isValidConfig(ProviderGetConfig(provider, pkg).value))
               => outcome = Returned(TRUE))

\* isReady() returned true on the second library built with a logger,
\* nothing else having been called on it
C23_Witness ==
    /\ logger = "mock"
    /\ Cardinality(Libraries(heap)) = 2
    /\ call = [op |-> "isReady", this |-> 8]
    /\ outcome = Returned(TRUE)
    /\ log = <<>>


-----------------------------------------------------------------------------
(* Properties of the calls ConfigService.isConfigValid makes on its        *)
(* provider, under Spec.                                                   *)

\* how many of the calls made on the provider were of the method
TimesAsked(method) == Cardinality({i \in 1..Len(asked) : asked[i].method = method})

\* C30: a call of isConfigValid() asks the provider isValid() first and
\* exactly once; when that returned false it returns false and getConfig()
\* was not called; when that returned true, getConfig() was called exactly
\* once, after it, and the call returns isValidConfig of what it returned.
C30_IsValidThenGetConfig ==
    call.op = "isConfigValid" =>
        /\ Len(asked) >= 1
        /\ asked[1].method = "isValid"
        /\ asked[1].result = ProviderIsValid(provider)
        /\ TimesAsked("isValid") = 1
        /\ ~asked[1].result.value =>
               /\ outcome = Returned(FALSE)
               /\ TimesAsked("getConfig") = 0
        /\ asked[1].result.value =>
               /\ TimesAsked("getConfig") = 1
               /\ asked[2].method = "getConfig"
               /\ asked[2].result = ProviderGetConfig(provider, pkg)
               /\ outcome = Returned(isValidConfig(asked[2].result.value))

\* isConfigValid() returned false from a valid provider, whose
\* configuration, fetched after isValid(), has no version
C30_Witness ==
    /\ call.op = "isConfigValid"
    /\ provider = Provider("mock", PartialConfig, TRUE, "never")
    /\ Len(asked) = 2
    /\ asked[2].result = Returned(PartialConfig)
    /\ outcome = Returned(FALSE)


-----------------------------------------------------------------------------
(* Properties of the services' calls over a history, under SpecHistory.    *)

\* what call c returns on services built with logger lg over provider p
\* when nothing was called before it, the package.json files being pk
ResultOf(c, lg, p, pk) ==
    CASE c.op = "add" -> Returned(add(c.input))
      [] c.op = "subtract" -> Returned(subtract(c.input))
      [] c.op = "multiply" -> Returned(multiply(c.input))
      [] c.op = "divide" -> Returned(divide(c.input))
      [] c.op = "process" -> process(lg, <<>>, c.input).outcome
      [] c.op = "getConfig" -> getConfig(p, pk)
      [] c.op = "getDefaultConfig" -> getDefaultConfig(pk)
      [] c.op = "isConfigValid" -> isConfigValid(p, pk)
      [] c.op = "getInfo" -> getInfo(lg, <<>>, p, pk).outcome
      [] c.op = "isReady" -> isReady(p, pk)

-----------------------------------------------------------------------------
(* Properties of MockCacheAdapter, under SpecCache.  A step with the clock *)
(* unchanged is the call call' of a method.                                *)

IsCall(op) == now' = now /\ call'.op = op

IsCallOn(op, key) == IsCall(op) /\ call'.key = key

Held(key) == key \in DOMAIN cache

HeldForever(key) == Held(key) /\ cache[key].expires.t = "undefined"

SameEntry(e1, e2) ==
    /\ e1.value.t = e2.value.t
    /\ e1.value = e2.value
    /\ e1.expires.t = e2.expires.t
    /\ e1.expires = e2.expires

\* a step that leaves key as it is: held or not and, when held, its entry
KeepsKey(key) ==
    /\ Held(key)' <=> Held(key)
    /\ Held(key) => SameEntry(cache'[key], cache[key])

\* get(key), has(key) give the value v of a key that is held
GivesValue(key, v) ==
    /\ IsCallOn("get", key) => outcome'.value.t = v.t /\ outcome'.value = v
    /\ IsCallOn("has", key) => outcome'.value = TRUE

GivesAbsent(key) ==
    /\ IsCallOn("get", key) => outcome'.value.t = "undefined"
    /\ IsCallOn("has", key) => outcome'.value = FALSE

\* C25: set(k, v) with no TTL leaves k held with v and no expiry, and an
\* entry with no expiry is kept by every step but set(k, ...), delete(k)
\* and clear(), get(k) returning v and has(k) true; delete(k) and clear()
\* leave k not held, and a key that is not held stays so until set(k, ...),
\* get(k) returning undefined and has(k) false; set and delete on another
\* key leave k as it is; size() is the number of keys held.
C25_LastWriteWins ==
    [][\A key \in CacheKeys :
          /\ (IsCallOn("set", key) /\ call'.ttlMs = "undefined") =>
                 /\ HeldForever(key)'
                 /\ cache'[key].value = CacheValue(call'.value)
          /\ HeldForever(key) =>
                 /\ GivesValue(key, cache[key].value)
                 /\ KeepsKey(key) \/ IsCallOn("set", key) \/ IsCallOn("delete", key)
                        \/ IsCall("clear")
          /\ (IsCallOn("delete", key) \/ IsCall("clear")) => ~Held(key)'
          /\ ~Held(key) =>
                 /\ GivesAbsent(key)
                 /\ KeepsKey(key) \/ IsCallOn("set", key)
          /\ (\E other \in CacheKeys \ {key} :
                  IsCallOn("set", other) \/ IsCallOn("delete", other)) => KeepsKey(key)
          /\ IsCall("size") => outcome'.value = Cardinality({k \in CacheKeys : Held(k)})
      ]_vars

\* get('key1') returned the value set with no TTL, after the clock advanced
\* as far as it goes, the other key not being held
C25_Witness ==
    /\ call = [op |-> "get", key |-> "key1"]
    /\ outcome.value.t = "string"
    /\ outcome = Returned(CacheValue("value1"))
    /\ HeldForever("key1")
    /\ ~Held("key2")
    /\ now = StartTime + MaxClock


\* key is held with an expiry, and the time at which the entry is last valid
HeldUntil(key) == Held(key) /\ cache[key].expires.t = "number"

DeadlineOf(key) == cache[key].expires.v.n

\* C26: set(k, v, ttl) with ttl > 0 at time t0 leaves k held with v and the
\* deadline t0 + ttl.  While it is not overwritten, deleted or cleared, at
\* every time up to and including the deadline get(k) returns v, has(k) is
\* true and the entry is kept; at every time after it get(k) returns
\* undefined and has(k) false, and k is not held afterwards; the deadline
\* of an entry never changes and the clock never goes back, and a key that
\* is not held stays so until set(k, ...).
C26_ValidThroughDeadline ==
    [][/\ now' >= now
       /\ \A key \in CacheKeys :
          /\ (IsCallOn("set", key) /\ call'.ttlMs \in {"1", "2"}) =>
                 /\ HeldUntil(key)'
                 /\ cache'[key].value = CacheValue(call'.value)
                 /\ cache'[key].expires.v = FromInt(now + (IF call'.ttlMs = "1" THEN 1 ELSE 2))
          /\ (HeldUntil(key) /\ now <= DeadlineOf(key)) =>
                 /\ GivesValue(key, cache[key].value)
                 /\ KeepsKey(key) \/ IsCallOn("set", key) \/ IsCallOn("delete", key)
                        \/ IsCall("clear")
          /\ (HeldUntil(key) /\ now > DeadlineOf(key)) =>
                 /\ GivesAbsent(key)
                 /\ (IsCallOn("get", key) \/ IsCallOn("has", key)) => ~Held(key)'
                 /\ KeepsKey(key) \/ ~Held(key)' \/ IsCallOn("set", key)
          /\ ~Held(key) => (~Held(key)' \/ IsCallOn("set", key))
      ]_vars

\* get('key1') returned the value at the very time the entry, set with a
\* TTL of 2, is last valid
C26_Witness ==
    /\ call = [op |-> "get", key |-> "key1"]
    /\ outcome.value.t = "string"
    /\ HeldUntil("key1")
    /\ outcome.value = cache["key1"].value
    /\ DeadlineOf("key1") = now
    /\ now = StartTime + 2


\* the entries of two Maps are the same
SameEntries(m1, m2) ==
    /\ DOMAIN m1 = DOMAIN m2
    /\ \A key \in DOMAIN m1 : SameEntry(m1[key], m2[key])

\* the times from now on that the model looks at
LaterTimes == now..(StartTime + MaxClock + 1)

\* C27: set(k, v, 0) leaves the entries exactly as set(k, v) does, k held
\* with v and no expiry; and of an entry with no expiry, at every later
\* time, get(k) returns the value and has(k) is true, both leaving the
\* entries as they are; no step but set(k, ...), delete(k) and clear()
\* changes it.
C27_ZeroTtlNeverExpires ==
    [][\A key \in CacheKeys :
          /\ (IsCallOn("set", key) /\ call'.ttlMs = "0") =>
                 /\ HeldForever(key)'
                 /\ cache'[key].value = CacheValue(call'.value)
                 /\ SameEntries(cache', set(cache, now, key, CacheValue(call'.value), JsUndefined))
          /\ HeldForever(key)' =>
                 \A t \in LaterTimes' :
                     /\ get(cache', t, key).result = cache'[key].value
                     /\ has(cache', t, key).result
                     /\ SameEntries(get(cache', t, key).cache, cache')
                     /\ SameEntries(has(cache', t, key).cache, cache')
          /\ HeldForever(key) =>
                 \/ KeepsKey(key)
                 \/ IsCallOn("set", key) \/ IsCallOn("delete", key) \/ IsCall("clear")
      ]_vars

\* the last call was set('key1', 'value1', 0), the clock has advanced as far
\* as it goes since and the entry is held, with its value
C27_Witness ==
    /\ call = [op |-> "set", key |-> "key1", value |-> "value1", ttlMs |-> "0"]
    /\ now = StartTime + MaxClock
    /\ HeldForever("key1")
    /\ get(cache, now, "key1").result = CacheValue("value1")
    /\ has(cache, now, "key1").result


\* key is held and its entry has expired
HeldExpired(key) == Held(key) /\ Expired(cache[key], now)

\* C28: a key stops being held only by get, has or delete on it or by
\* clear(); the passage of time changes no entry; get(k) or has(k) on an
\* expired entry removes it and nothing else, so that size() is one less,
\* and on any other key changes nothing; size() counts every key held,
\* expired or not, and changes nothing.
C28_LazyEviction ==
    [][/\ now' # now => SameEntries(cache', cache)
       /\ IsCall("size") =>
              /\ outcome'.value = Cardinality(DOMAIN cache)
              /\ SameEntries(cache', cache)
       /\ \A key \in CacheKeys :
          /\ (Held(key) /\ ~Held(key)') =>
                 \/ IsCallOn("get", key) \/ IsCallOn("has", key)
                 \/ IsCallOn("delete", key) \/ IsCall("clear")
          /\ (IsCallOn("get", key) \/ IsCallOn("has", key)) =>
                 IF HeldExpired(key)
                 THEN /\ size(cache') = size(cache) - 1
                      /\ SameEntries(cache', MapDelete(cache, key))
                 ELSE SameEntries(cache', cache)
      ]_vars

\* size() returned 2 while the entry of 'key1' had expired
C28_Witness ==
    /\ call = [op |-> "size"]
    /\ outcome = Returned(2)
    /\ HeldExpired("key1")
    /\ Held("key2")


\* what has(key) and get(key) give when called now
HasNow(key) == has(cache, now, key).result

GetNow(key) == get(cache, now, key).result

\* key is held, not expired, with the value undefined
HoldsUndefined(key) ==
    Held(key) /\ ~Expired(cache[key], now) /\ cache[key].value.t = "undefined"

\* C29 as stated: at every time and for every key, has(k) is true exactly
\* when get(k) returns a value and not undefined, whatever was set.
C29_HasAgreesWithGet ==
    \A key \in CacheKeys : HasNow(key) <=> GetNow(key).t # "undefined"

\* C29, amended: at every time and for every key, has(k) is true exactly
\* when get(k) returns a value and not undefined, unless the value held for
\* k is undefined itself: then has(k) is true and get(k) returns undefined.
\* Both leave the same entries.
C29_HasAgreesWithGetUnlessUndefined ==
    \A key \in CacheKeys :
        /\ IF HoldsUndefined(key)
           THEN HasNow(key) /\ GetNow(key).t = "undefined"
           ELSE HasNow(key) <=> GetNow(key).t # "undefined"
        /\ SameEntries(has(cache, now, key).cache, get(cache, now, key).cache)

\* has('key2') returned true, get('key2') giving its value, while the entry
\* of 'key1' has expired and both say it is not there
C29_Witness ==
    /\ call = [op |-> "has", key |-> "key2"]
    /\ outcome = Returned(TRUE)
    /\ GetNow("key2").t = "string"
    /\ HeldExpired("key1")
    /\ ~HasNow("key1")
    /\ GetNow("key1").t = "undefined"

====
